---- MODULE Spec2Model ----
(***************************************************************************)
(* A model of sonos-web-cli (src/index.js, the home-directory variant,     *)
(* lines 1-270): the install / start / stop / uninstall / update commands  *)
(* acting on the installation directory ~/.sonos-web, the forever process  *)
(* supervisor and the install log; and of the start / stop / uninstall     *)
(* commands of the variant that keeps the installation directory in a      *)
(* config file (lines 272-515).                                            *)
(*                                                                         *)
(* One CLI invocation is one Node process.  An action of the model is one  *)
(* turn of that process's event loop: the code that runs from the          *)
(* completion of the operation the process awaits up to the next await,    *)
(* shell.exit or return.  Writes the code starts without awaiting them     *)
(* (fs.writeFile at line 172, the write stream of asyncExec at lines       *)
(* 35-38) are kept in `pending` and land in a later turn, in any order;    *)
(* shell.exit drops them.                                                  *)
(***************************************************************************)
EXTENDS Integers, Sequences, FiniteSets, TLC

(***************************************************************************)
(* Bounds of the model.                                                    *)
(***************************************************************************)
\* the longest environment file, in lines
MaxEnvLines == 2
\* the most instances of src/server.js the supervisor is let to hold
MaxRegistered == 2

Procs == {1, 2}

(***************************************************************************)
(* Files under installPath (line 24), named relative to it.                *)
(***************************************************************************)
InstallLog == "install.log"
PidFile == "sonos-web.pid"
ServerJs == "src/server.js"
EnvFile == ".env"

\* what download-git-repo puts into the directory (the sonos-web repository)
RepoFiles ==
  { ".gitignore", "client", "server/src/server.js", "server/.env.production",
    "server/package.json", "server/.eslintrc.js", "server/package-lock.json" }

\* the entries of server/ and where 'mv server/* .' and 'mv server/.* .' put them
ServerStar ==
  { <<"server/src/server.js", "src/server.js">>,
    <<"server/dist", "dist">>,
    <<"server/package.json", "package.json">>,
    <<"server/package-lock.json", "package-lock.json">> }

ServerDotStar ==
  { <<"server/.env", ".env">>,
    <<"server/.env.production", ".env.production">>,
    <<"server/.eslintrc.js", ".eslintrc.js">> }

ServerFiles == { m[1] : m \in ServerStar \cup ServerDotStar }

\* the files that hold the environment text
EnvHolders == { "server/.env.production", "server/.env", ".env.production", ".env" }

\* what fs.remove(name) takes away
Under(name) ==
  CASE name = "client" -> { "client", "client/dist" }
    [] name = "server" -> ServerFiles
    [] OTHER -> { name }

(***************************************************************************)
(* Text.  A line is a sequence of characters; a file is a sequence of      *)
(* lines (what split('\n') returns, line 83).                              *)
(***************************************************************************)
PortLine == << "P", "O", "R", "T", "=", "5", "0" >>
AppPortLine == << "A", "_", "P", "O", "R", "T", "=", "8" >>
HostLine == << "H", "=", "a" >>
EnvLines == { PortLine, AppPortLine, HostLine }

RECURSIVE SeqsUpTo(_, _)
SeqsUpTo(S, n) ==
  IF n = 0 THEN { << >> }
  ELSE LET shorter == SeqsUpTo(S, n - 1)
       IN shorter \cup { Append(q, x) : q \in shorter, x \in S }

EnvTexts == SeqsUpTo(EnvLines, MaxEnvLines)

\* the texts of server/.env.production the download may bring
RepoEnvTexts == { << PortLine >>, << HostLine >>, << AppPortLine, PortLine >> }

PortPattern == << "P", "O", "R", "T", "=" >>

\* String.prototype.includes
includes(line, pat) ==
  \E i \in 1..(Len(line) - Len(pat) + 1) :
    SubSeq(line, i, i + Len(pat) - 1) = pat

\* the index of the first character c of line at or after position i, else Len(line) + 1
RECURSIVE indexFrom(_, _, _)
indexFrom(line, c, i) ==
  IF i > Len(line) THEN Len(line) + 1
  ELSE IF line[i] = c THEN i
  ELSE indexFrom(line, c, i + 1)

\* line.split('=')[1]; Undefined when the line holds no '='
Undefined == << "undefined" >>

splitSecond(line) ==
  LET a == indexFrom(line, "=", 1)
      b == indexFrom(line, "=", a + 1)
  IN IF a > Len(line) THEN Undefined ELSE SubSeq(line, a + 1, b - 1)

\* the search of line 83 with '=' for 'PORT='
findAssignment(text) ==
  LET hits == { i \in 1..Len(text) : includes(text[i], << "=" >>) }
  IN IF hits = {} THEN << >>
     ELSE << text[CHOOSE i \in hits : \A j \in hits : i <= j] >>

\* Array.prototype.find over the lines: the first line that includes PORT=
RECURSIVE findPortEnv(_)
findPortEnv(text) ==
  IF text = << >> THEN << >>
  ELSE IF includes(Head(text), PortPattern) THEN << Head(text) >>
  ELSE findPortEnv(Tail(text))

(***************************************************************************)
(* State.  dir, files, log, env: the installation directory (line 24),     *)
(* the files in it, the chunks of output held by install.log and the text  *)
(* of the environment file.  registered: the instances of src/server.js    *)
(* the forever daemon runs.  config: the file sonos-web-config.json of the *)
(* config-file variant (line 281), "missing", "unreadable" or "valid".     *)
(* The other variables are per process: the command it runs, where it      *)
(* stands, what it has printed and executed, and the writes it has started *)
(* and not awaited.  partial records that an install has failed after it   *)
(* made the directory, and the directory has not been removed since.       *)
(***************************************************************************)
VARIABLES dir, files, log, env, registered, config,
          pc, cmd, step, portEnv, exitCode, out, ran, pending, reported,
          logged, rejected, mutated, failed, pre, overlap, partial

vars == << dir, files, log, env, registered, config,
           pc, cmd, step, portEnv, exitCode, out, ran, pending, reported,
           logged, rejected, mutated, failed, pre, overlap, partial >>

\* the external commands handed to asyncExec
NpmInstall == "npm install"
NpmBuild == "npm run build"
NpmProd == "npm install --only=production"
ForeverStart == "forever start src/server.js"
ForeverStop == "forever stop src/server.js"

\* the un-awaited fs.writeFile(installLogFile, '') of line 172
Truncate == "writeFile ''"

Commands == { "install", "update", "start", "stop", "uninstall" }

\* the state as one value, for the operators below
State ==
  [ dir |-> dir, files |-> files, log |-> log, env |-> env,
    registered |-> registered, config |-> config, pc |-> pc, cmd |-> cmd, step |-> step,
    portEnv |-> portEnv, exitCode |-> exitCode, out |-> out, ran |-> ran,
    pending |-> pending, reported |-> reported, logged |-> logged,
    rejected |-> rejected, mutated |-> mutated, failed |-> failed, pre |-> pre,
    partial |-> partial ]

\* what is on the machine, outside the process
World(s) == << s.dir, s.files, s.log, s.env, s.registered, s.config >>

\* a file that is not there has no content
Norm(s) ==
  [ s EXCEPT !.files = IF s.dir THEN @ ELSE {},
             !.log = IF s.dir /\ InstallLog \in s.files THEN @ ELSE {},
             !.env = IF s.dir /\ s.files \cap EnvHolders # {} THEN @ ELSE << >> ]

\* line 57
isRunning(s) == s.dir /\ PidFile \in s.files

\* line 62
isInstalled(s) == s.dir /\ ServerJs \in s.files

say(s, p, what) == [ s EXCEPT !.out[p] = Append(@, what) ]

fail(s, p) == [ s EXCEPT !.failed[p] = TRUE ]

\* shell.exit: the process ends at once; the writes it has not finished are lost
shellExit(s, p, code) ==
  [ s EXCEPT !.pc[p] = "exited", !.exitCode[p] = code, !.pending[p] = {} ]

\* the function the command runs has returned; Node exits once nothing is pending
return(s, p) == [ s EXCEPT !.pc[p] = "returned" ]

\* the callback of shell.exec, lines 33-45: the output goes to a write stream
\* on the install log, when that file exists, and the stream is not awaited;
\* then the promise is resolved or rejected.  logged and rejected record the
\* commands whose output was handed to a stream and the command that failed
asyncExec(s, p, command, ok) ==
  LET exists == s.dir /\ InstallLog \in s.files
  IN [ s EXCEPT !.ran[p] = Append(@, command),
                !.pending[p] = IF exists THEN @ \cup { command } ELSE @,
                !.logged[p] = IF exists THEN @ \cup { command } ELSE @,
                !.rejected[p] = IF ok THEN @ ELSE command,
                !.failed[p] = @ \/ ~ok ]

(***************************************************************************)
(* start, lines 69-116                                                     *)
(***************************************************************************)
\* the catch block, lines 101-115
startCatch(s, p, what) == shellExit(say(s, p, what), p, 1)

\* start without the check of line 74
startUnchecked(s, p) ==
  IF isRunning(s) THEN startCatch(s, p, "already running")
  ELSE [ s EXCEPT !.pc[p] = "read_env" ]

\* start without the check of lines 77-79
startAgain(s, p) ==
  IF ~isInstalled(s) THEN startCatch(s, p, "no installation found")
  ELSE [ s EXCEPT !.pc[p] = "read_env" ]

\* lines 74-82: the checks, then fs.readFile('.env') is awaited
start(s, p) ==
  IF ~isInstalled(s) THEN startCatch(s, p, "no installation found")
  ELSE IF isRunning(s) THEN startCatch(s, p, "already running")
  ELSE [ s EXCEPT !.pc[p] = "read_env" ]

\* lines 82-90: the environment file is read and searched for PORT=
startReadEnv(s, p) ==
  IF ~(s.dir /\ EnvFile \in s.files)
    THEN startCatch(fail(s, p), p, "start failed")
  ELSE IF findPortEnv(s.env) = << >>
    THEN startCatch(s, p, "no port")
  ELSE [ s EXCEPT !.portEnv[p] = findPortEnv(s.env), !.pc[p] = "forever_start" ]

LocalUrl(port) == << "http://localhost:" >> \o port
NetworkUrl(port) == << "http://", "ip.address()", ":" >> \o port

\* lines 94-100
startReport(s, p) ==
  LET port == splitSecond(s.portEnv[p][1])
  IN [ s EXCEPT !.reported[p] = << LocalUrl(port), NetworkUrl(port) >> ]

\* forever start: a new instance is registered and its pid file written
foreverStart(s) ==
  [ s EXCEPT !.registered = @ + 1, !.files = @ \cup { PidFile } ]

\* lines 90-100: forever has exited
startForeverDone(s, p, ok) ==
  IF ok /\ s.dir
    THEN return(startReport(asyncExec(foreverStart(s), p, ForeverStart, TRUE), p), p)
    ELSE startCatch(asyncExec(s, p, ForeverStart, FALSE), p, "start failed")

(***************************************************************************)
(* install, lines 156-225                                                  *)
(***************************************************************************)
\* install with `return` for shell.exit(1) at line 160
installReturns(s, p) ==
  IF isInstalled(s)
    THEN return(say(s, p, "already installed"), p)
    ELSE [ s EXCEPT !.pc[p] = "install_mkdir" ]

\* install without the check of lines 157-161
installUnchecked(s, p) == [ s EXCEPT !.pc[p] = "install_mkdir" ]

\* lines 157-161
install(s, p) ==
  IF isInstalled(s)
    THEN shellExit(say(s, p, "already installed"), p, 1)
    ELSE [ s EXCEPT !.pc[p] = "install_mkdir" ]

\* shell.mkdir('-p', installPath): a directory that exists is no failure
installMkdirP(s, p, ok) ==
  IF ~ok
    THEN shellExit(say(fail(s, p), p, "Could not create install directory"), p, 1)
    ELSE [ s EXCEPT !.dir = TRUE, !.pc[p] = "downloading" ]

\* lines 163-170: shell.mkdir without -p fails on a directory that exists;
\* then the download is started
installMkdir(s, p, ok) ==
  IF s.dir \/ ~ok
    THEN shellExit(say(fail(s, p), p, "Could not create install directory"), p, 1)
    ELSE [ s EXCEPT !.dir = TRUE, !.files = {}, !.pc[p] = "downloading" ]

\* a catch block that removes what the install has written
installCatchRollback(s, p) ==
  shellExit(say(fail([ s EXCEPT !.dir = FALSE, !.files = {} ], p), p,
                "installation failed"), p, 1)

\* the catch block, lines 219-223
installCatch(s, p) ==
  shellExit(say(fail(s, p), p, "installation failed"), p, 1)

\* lines 170-185, the callback of download: the log is cleared without
\* awaiting the write; an error ends the process
installDownloaded(s, p, ok, text) ==
  LET cleared == [ s EXCEPT !.pending[p] = @ \cup { Truncate } ]
  IN IF ok
       THEN [ cleared EXCEPT !.dir = TRUE, !.files = @ \cup RepoFiles,
                             !.env = text, !.pc[p] = "npm_install" ]
       ELSE shellExit(say(fail(s, p), p, "download failed"), p, 1)

\* lines 185-189
installNpmDone(s, p, ok) ==
  IF ok THEN [ asyncExec(s, p, NpmInstall, TRUE) EXCEPT !.pc[p] = "npm_build" ]
        ELSE installCatch(asyncExec(s, p, NpmInstall, FALSE), p)

\* npm run build leaves client/dist
npmBuild(s) ==
  [ s EXCEPT !.files = IF "client" \in @ THEN @ \cup { "client/dist" } ELSE @ ]

\* lines 189-194
installBuildDone(s, p, ok) ==
  IF ok THEN [ asyncExec(npmBuild(s), p, NpmBuild, TRUE) EXCEPT !.pc[p] = "npm_prod" ]
        ELSE installCatch(asyncExec(s, p, NpmBuild, FALSE), p)

\* shell.mv of one file: an error is printed and the code goes on
mv(s, p, from, to, ok) ==
  IF ok /\ s.dir /\ from \in s.files
    THEN [ s EXCEPT !.files = (@ \ { from }) \cup { to } ]
    ELSE fail(s, p)

\* shell.mv of a glob into the installation directory
mvAll(s, p, table, ok) ==
  LET found == { m \in table : m[1] \in s.files }
  IN IF ok /\ s.dir /\ found # {}
       THEN [ s EXCEPT !.files = (@ \ { m[1] : m \in found })
                                 \cup { m[2] : m \in found } ]
       ELSE fail(s, p)

\* the files lines 205-214 remove, in order
CleanupRemoves ==
  << ".gitignore", "client", "server/package.json", "server/.eslintrc.js",
     "server/package-lock.json", "server" >>

\* lines 194-205: the back-end dependencies are in; dist and the environment
\* file are moved, and the first removal is awaited
installProdDone(s, p, ok, mv1, mv2) ==
  IF ok
    THEN LET a == asyncExec(s, p, NpmProd, TRUE)
             b == mv(a, p, "client/dist", "server/dist", mv1)
             c == mv(b, p, "server/.env.production", "server/.env", mv2)
         IN [ c EXCEPT !.pc[p] = "cleanup", !.step[p] = 1 ]
    ELSE installCatch(asyncExec(s, p, NpmProd, FALSE), p)

\* the clean-up without line 212
flattenDotOnly(s, p, mv3, mv4) == mvAll(s, p, ServerDotStar, mv4)

\* lines 212-213
flatten(s, p, mv3, mv4) ==
  mvAll(mvAll(s, p, ServerStar, mv3), p, ServerDotStar, mv4)

(***************************************************************************)
(* stop, lines 118-134; uninstall, lines 136-154; update, lines 227-230    *)
(***************************************************************************)
\* uninstall has returned: update goes on with install (line 229)
uninstallReturn(s, p) ==
  IF s.cmd[p] = "update" THEN install(s, p) ELSE return(s, p)

\* lines 144-147: fs.remove(installPath) is awaited
uninstallRemove(s, p) == [ s EXCEPT !.pc[p] = "removing" ]

\* stop has returned, to the CLI or to uninstall (line 143)
stopReturn(s, p) ==
  IF s.cmd[p] = "stop" THEN return(s, p) ELSE uninstallRemove(s, p)

\* stop without the check of lines 119-122
stopAlways(s, p) == [ s EXCEPT !.pc[p] = "forever_stop" ]

\* lines 119-128
stop(s, p) ==
  IF ~isRunning(s)
    THEN stopReturn(say(s, p, "isn't running"), p)
    ELSE [ s EXCEPT !.pc[p] = "forever_stop" ]

\* forever stop: every instance of the script is stopped, the pid file removed
foreverStop(s) ==
  [ s EXCEPT !.registered = 0, !.files = @ \ { PidFile } ]

\* lines 128-133: forever has exited; its failure is printed, not raised
stopForeverDone(s, p, ok) ==
  IF ok
    THEN stopReturn(asyncExec(foreverStop(s), p, ForeverStop, TRUE), p)
    ELSE stopReturn(say(asyncExec(s, p, ForeverStop, FALSE), p, "stop failed"), p)

\* uninstall without the stop of lines 141-143
uninstallNoStop(s, p) ==
  IF ~s.dir
    THEN uninstallReturn(say(s, p, "isn't installed"), p)
    ELSE uninstallRemove(s, p)

\* lines 137-143
uninstall(s, p) ==
  IF ~s.dir
    THEN uninstallReturn(say(s, p, "isn't installed"), p)
    ELSE stop(s, p)

\* the files whose presence the commands test or read (lines 34, 58, 63, 82)
Markers == { InstallLog, PidFile, ServerJs, EnvFile }

\* what a failed fs.remove may leave: it has deleted some entries and not
\* others.  The outcomes are told apart by the markers they leave; the other
\* files are kept, as no command looks at them in a directory that exists
RemoveLeaves(s) == { s.files \ gone : gone \in SUBSET (s.files \cap Markers) }

\* the outcomes of shell.mv on a source that exists
MvOutcomes == { TRUE }

\* uninstall without the shell.exit(1) of line 152
uninstallRemovedGoesOn(s, p, ok, keep) ==
  IF ok
    THEN uninstallReturn([ s EXCEPT !.dir = FALSE, !.files = {} ], p)
    ELSE uninstallReturn(say(fail([ s EXCEPT !.files = keep ], p), p, "uninstall failed"), p)

\* lines 147-153: fs.remove has ended; when it failed, `keep` is what it left
uninstallRemoved(s, p, ok, keep) ==
  IF ok
    THEN uninstallReturn([ s EXCEPT !.dir = FALSE, !.files = {} ], p)
    ELSE shellExit(say(fail([ s EXCEPT !.files = keep ], p), p, "uninstall failed"), p, 1)

\* lines 227-228
update(s, p) == uninstall(s, p)

\* lines 205-218: one removal has ended; after the last one start is called
installCleanupDone(s, p, ok, mv3, mv4) ==
  LET i == s.step[p]
      gone == [ s EXCEPT !.files = @ \ Under(CleanupRemoves[i]),
                         !.step[p] = IF i < Len(CleanupRemoves) THEN i + 1 ELSE 0 ]
  IN IF ~ok THEN installCatch(s, p)
     ELSE IF i = Len(CleanupRemoves) THEN start(gone, p)
     ELSE IF i = Len(CleanupRemoves) - 1 THEN flatten(gone, p, mv3, mv4)
     ELSE gone

(***************************************************************************)
(* The event loop: writes that were not awaited                            *)
(***************************************************************************)
\* a pending write lands.  In a directory that is gone the open fails: the
\* write stream's 'error' event has no listener and ends the process; the
\* rejection of fs.writeFile is unhandled, which ends the process or only
\* warns, by the version of Node (strict)
ioLand(s, p, op, strict) ==
  LET rest == [ s EXCEPT !.pending[p] = @ \ { op } ]
  IN IF s.dir
       THEN [ rest EXCEPT !.files = @ \cup { InstallLog },
                          !.log = IF op = Truncate THEN {}
                                  ELSE (IF InstallLog \in s.files THEN s.log ELSE {})
                                       \cup { op } ]
     ELSE IF op # Truncate \/ strict
       THEN shellExit(say(rest, p, "uncaught"), p, 1)
     ELSE rest

(***************************************************************************)
(* Actions                                                                 *)
(***************************************************************************)
\* where install stands once shell.mkdir has made the directory (line 164),
\* up to the end of its call of start
PastMkdir ==
  { "downloading", "npm_install", "npm_build", "npm_prod", "cleanup",
    "read_env", "forever_start" }

\* the step of process p from the state s0 to t; mutated records that p has
\* changed something on the machine
Commit(p, s0, t) ==
  LET n == Norm(t)
      changed == World(n) # World(Norm(s0))
      failedInstall ==
        /\ n.cmd[p] \in { "install", "update" }
        /\ s0.pc[p] \in PastMkdir
        /\ n.pc[p] = "exited"
        /\ n.exitCode[p] = 1
  IN /\ dir' = n.dir
     /\ files' = n.files
     /\ log' = n.log
     /\ env' = n.env
     /\ registered' = n.registered
     /\ config' = n.config
     /\ pc' = n.pc
     /\ cmd' = n.cmd
     /\ step' = n.step
     /\ portEnv' = n.portEnv
     /\ exitCode' = n.exitCode
     /\ out' = n.out
     /\ ran' = n.ran
     /\ pending' = n.pending
     /\ reported' = n.reported
     /\ logged' = n.logged
     /\ rejected' = n.rejected
     /\ mutated' = [ n.mutated EXCEPT ![p] = @ \/ changed ]
     /\ failed' = n.failed
     /\ pre' = n.pre
     /\ partial' = (n.dir /\ (s0.partial \/ failedInstall))
     /\ UNCHANGED overlap

Ended(p) == pc[p] \in { "idle", "exited" }

\* a new process for the command c (the dispatch of lines 237-258)
Fresh(s, p, c) ==
  [ s EXCEPT !.pc[p] = "entry", !.cmd[p] = c, !.step[p] = 0, !.portEnv[p] = << >>,
             !.exitCode[p] = 0, !.out[p] = << >>, !.ran[p] = << >>,
             !.pending[p] = {}, !.reported[p] = << >>, !.logged[p] = {},
             !.rejected[p] = "", !.mutated[p] = FALSE,
             !.failed[p] = FALSE,
             !.pre[p] = [ installed |-> isInstalled(s), running |-> isRunning(s),
                          dir |-> s.dir, config |-> s.config,
                          partial |-> s.partial ] ]

dispatch(s, p, c) ==
  CASE c = "install" -> install(s, p)
    [] c = "update" -> update(s, p)
    [] c = "start" -> start(s, p)
    [] c = "stop" -> stop(s, p)
    [] c = "uninstall" -> uninstall(s, p)

\* the user runs `sonos-web c`; without overlap, one command at a time
Invoke(p, c) ==
  /\ Ended(p)
  /\ overlap \/ (p = 1 /\ \A q \in Procs : Ended(q))
  /\ Commit(p, State, dispatch(Fresh(State, p, c), p, c))

InstallMkdir(p, ok) ==
  /\ pc[p] = "install_mkdir"
  /\ Commit(p, State, installMkdir(State, p, ok))

InstallDownloaded(p, ok, text) ==
  /\ pc[p] = "downloading"
  /\ Commit(p, State, installDownloaded(State, p, ok, text))

InstallNpmDone(p, ok) ==
  /\ pc[p] = "npm_install"
  /\ Commit(p, State, installNpmDone(State, p, ok))

InstallBuildDone(p, ok) ==
  /\ pc[p] = "npm_build"
  /\ Commit(p, State, installBuildDone(State, p, ok))

InstallProdDone(p, ok, mv1, mv2) ==
  /\ pc[p] = "npm_prod"
  /\ Commit(p, State, installProdDone(State, p, ok, mv1, mv2))

InstallCleanupDone(p, ok, mv3, mv4) ==
  /\ pc[p] = "cleanup"
  /\ Commit(p, State, installCleanupDone(State, p, ok, mv3, mv4))

StartReadEnv(p) ==
  /\ pc[p] = "read_env"
  /\ Commit(p, State, startReadEnv(State, p))

StartForeverDone(p, ok) ==
  /\ pc[p] = "forever_start"
  /\ ok => registered < MaxRegistered
  /\ Commit(p, State, startForeverDone(State, p, ok))

StopForeverDone(p, ok) ==
  /\ pc[p] = "forever_stop"
  /\ Commit(p, State, stopForeverDone(State, p, ok))

UninstallRemoved(p, ok, keep) ==
  /\ pc[p] = "removing"
  /\ Commit(p, State, uninstallRemoved(State, p, ok, keep))

\* the process is between two turns of its event loop
Awaiting(p) == ~Ended(p) /\ pc[p] # "install_mkdir"

IOLand(p, op, strict) ==
  /\ Awaiting(p)
  /\ op \in pending[p]
  /\ Commit(p, State, ioLand(State, p, op, strict))

\* nothing is left to wait for: Node exits with code 0
ProcessExit(p) ==
  /\ pc[p] = "returned"
  /\ pending[p] = {}
  /\ Commit(p, State, shellExit(State, p, 0))

Init ==
  /\ dir = FALSE
  /\ files = {}
  /\ log = {}
  /\ env = << >>
  /\ registered = 0
  /\ config = "missing"
  /\ pc = [ p \in Procs |-> "idle" ]
  /\ cmd = [ p \in Procs |-> "none" ]
  /\ step = [ p \in Procs |-> 0 ]
  /\ portEnv = [ p \in Procs |-> << >> ]
  /\ exitCode = [ p \in Procs |-> 0 ]
  /\ out = [ p \in Procs |-> << >> ]
  /\ ran = [ p \in Procs |-> << >> ]
  /\ pending = [ p \in Procs |-> {} ]
  /\ reported = [ p \in Procs |-> << >> ]
  /\ logged = [ p \in Procs |-> {} ]
  /\ rejected = [ p \in Procs |-> "" ]
  /\ mutated = [ p \in Procs |-> FALSE ]
  /\ failed = [ p \in Procs |-> FALSE ]
  /\ pre = [ p \in Procs |-> [ installed |-> FALSE, running |-> FALSE, dir |-> FALSE,
                               config |-> "missing", partial |-> FALSE ] ]
  /\ overlap = FALSE
  /\ partial = FALSE

Next ==
  \/ \E p \in Procs, c \in Commands : Invoke(p, c)
  \/ \E p \in Procs, ok \in BOOLEAN : InstallMkdir(p, ok)
  \/ \E p \in Procs, ok \in BOOLEAN, text \in RepoEnvTexts : InstallDownloaded(p, ok, text)
  \/ \E p \in Procs, ok \in BOOLEAN : InstallNpmDone(p, ok)
  \/ \E p \in Procs, ok \in BOOLEAN : InstallBuildDone(p, ok)
  \/ \E p \in Procs, ok \in BOOLEAN, mv1, mv2 \in MvOutcomes :
       InstallProdDone(p, ok, mv1, mv2)
  \/ \E p \in Procs, ok \in BOOLEAN, mv3, mv4 \in MvOutcomes :
       InstallCleanupDone(p, ok, mv3, mv4)
  \/ \E p \in Procs : StartReadEnv(p)
  \/ \E p \in Procs, ok \in BOOLEAN : StartForeverDone(p, ok)
  \/ \E p \in Procs, ok \in BOOLEAN : StopForeverDone(p, ok)
  \/ \E p \in Procs, ok \in BOOLEAN : \E keep \in RemoveLeaves(State) :
       UninstallRemoved(p, ok, keep)
  \/ \E p \in Procs, strict \in BOOLEAN : \E op \in pending[p] : IOLand(p, op, strict)
  \/ \E p \in Procs : ProcessExit(p)

Spec == Init /\ [][Next]_vars

(***************************************************************************)
(* start and stop on an installation whose environment file holds any of   *)
(* the texts of EnvTexts: the state an install and a stop leave, with the  *)
(* environment file as the user has edited it.                             *)
(***************************************************************************)
InstalledFiles == { ServerJs, EnvFile, "dist", InstallLog }

InitStart ==
  /\ dir = TRUE
  /\ files = InstalledFiles
  /\ log = { NpmInstall, NpmBuild, NpmProd, ForeverStart, ForeverStop }
  /\ env \in EnvTexts
  /\ registered = 0
  /\ config = "missing"
  /\ pc = [ p \in Procs |-> "idle" ]
  /\ cmd = [ p \in Procs |-> "none" ]
  /\ step = [ p \in Procs |-> 0 ]
  /\ portEnv = [ p \in Procs |-> << >> ]
  /\ exitCode = [ p \in Procs |-> 0 ]
  /\ out = [ p \in Procs |-> << >> ]
  /\ ran = [ p \in Procs |-> << >> ]
  /\ pending = [ p \in Procs |-> {} ]
  /\ reported = [ p \in Procs |-> << >> ]
  /\ logged = [ p \in Procs |-> {} ]
  /\ rejected = [ p \in Procs |-> "" ]
  /\ mutated = [ p \in Procs |-> FALSE ]
  /\ failed = [ p \in Procs |-> FALSE ]
  /\ pre = [ p \in Procs |-> [ installed |-> FALSE, running |-> FALSE, dir |-> FALSE,
                               config |-> "missing", partial |-> FALSE ] ]
  /\ overlap = FALSE
  /\ partial = FALSE

NextStart ==
  \/ \E p \in Procs, c \in { "start", "stop" } : Invoke(p, c)
  \/ \E p \in Procs : StartReadEnv(p)
  \/ \E p \in Procs, ok \in BOOLEAN : StartForeverDone(p, ok)
  \/ \E p \in Procs, ok \in BOOLEAN : StopForeverDone(p, ok)
  \/ \E p \in Procs, strict \in BOOLEAN : \E op \in pending[p] : IOLand(p, op, strict)
  \/ \E p \in Procs : ProcessExit(p)

SpecStart == InitStart /\ [][NextStart]_vars

(***************************************************************************)
(* install alone, by processes that overlap (no lock is taken on the       *)
(* installation directory), with each shell.mv failing or not.             *)
(***************************************************************************)
InitInstalls ==
  /\ dir = FALSE
  /\ files = {}
  /\ log = {}
  /\ env = << >>
  /\ registered = 0
  /\ config = "missing"
  /\ pc = [ p \in Procs |-> "idle" ]
  /\ cmd = [ p \in Procs |-> "none" ]
  /\ step = [ p \in Procs |-> 0 ]
  /\ portEnv = [ p \in Procs |-> << >> ]
  /\ exitCode = [ p \in Procs |-> 0 ]
  /\ out = [ p \in Procs |-> << >> ]
  /\ ran = [ p \in Procs |-> << >> ]
  /\ pending = [ p \in Procs |-> {} ]
  /\ reported = [ p \in Procs |-> << >> ]
  /\ logged = [ p \in Procs |-> {} ]
  /\ rejected = [ p \in Procs |-> "" ]
  /\ mutated = [ p \in Procs |-> FALSE ]
  /\ failed = [ p \in Procs |-> FALSE ]
  /\ pre = [ p \in Procs |-> [ installed |-> FALSE, running |-> FALSE, dir |-> FALSE,
                               config |-> "missing", partial |-> FALSE ] ]
  /\ overlap = TRUE
  /\ partial = FALSE

NextInstalls ==
  \/ \E p \in Procs : Invoke(p, "install")
  \/ \E p \in Procs, ok \in BOOLEAN : InstallMkdir(p, ok)
  \/ \E p \in Procs, ok \in BOOLEAN, text \in RepoEnvTexts : InstallDownloaded(p, ok, text)
  \/ \E p \in Procs, ok \in BOOLEAN : InstallNpmDone(p, ok)
  \/ \E p \in Procs, ok \in BOOLEAN : InstallBuildDone(p, ok)
  \/ \E p \in Procs, ok \in BOOLEAN, mv1, mv2 \in BOOLEAN :
       InstallProdDone(p, ok, mv1, mv2)
  \/ \E p \in Procs, ok \in BOOLEAN, mv3, mv4 \in BOOLEAN :
       InstallCleanupDone(p, ok, mv3, mv4)
  \/ \E p \in Procs : StartReadEnv(p)
  \/ \E p \in Procs, ok \in BOOLEAN : StartForeverDone(p, ok)
  \/ \E p \in Procs, strict \in BOOLEAN : \E op \in pending[p] : IOLand(p, op, strict)
  \/ \E p \in Procs : ProcessExit(p)

SpecInstalls == InitInstalls /\ [][NextInstalls]_vars

(***************************************************************************)
(* The config-file variant, lines 272-515: start, stop and uninstall find  *)
(* the installation directory in sonos-web-config.json, which install has  *)
(* written next to the CLI's own package (line 416).                       *)
(***************************************************************************)
NpmRoot == "npm root -g"

\* what the file can be when a command reads it
ConfigStates == { "missing", "unreadable", "valid" }

\* asyncExec(command, logFile), lines 285-301: the output goes to a write
\* stream only when a log file is named
asyncExecTo(s, p, command, ok, logFile) ==
  [ s EXCEPT !.ran[p] = Append(@, command),
             !.pending[p] = IF logFile THEN @ \cup { command } ELSE @,
             !.logged[p] = IF logFile THEN @ \cup { command } ELSE @,
             !.rejected[p] = IF ok THEN @ ELSE command,
             !.failed[p] = @ \/ ~ok ]

\* getPackageRoot, lines 318-321: npm root -g, with no log file
getPackageRoot(s, p, root) == asyncExecTo(s, p, NpmRoot, root, FALSE)

\* getInstallationPath, lines 326-334: TRUE when it returns installDir, FALSE
\* when it throws: npm root -g has failed, or readJsonSync has
getInstallationPath(s, root) == root /\ s.config = "valid"

\* the catch blocks that end the process, lines 349-353, 361-365, 382-385, 400-404
configCatch(s, p, what) == shellExit(say(s, p, what), p, 1)

\* forever start src/server.js, with no pid file in the installation directory
foreverStartConfig(s) == [ s EXCEPT !.registered = @ + 1 ]

FixedPort == << "5", "0", "5", "0" >>

\* lines 339-342: start awaits getInstallationPath
startConfig(s, p) == [ s EXCEPT !.pc[p] = "cfg_root", !.step[p] = 0 ]

\* start that goes on to the supervisor whatever getInstallationPath does
startConfigUnresolved(s, p, root) ==
  [ getPackageRoot(s, p, root) EXCEPT !.pc[p] = "cfg_forever_start" ]

\* lines 342-344
startConfigResolved(s, p, root) ==
  IF getInstallationPath(s, root)
    THEN [ getPackageRoot(s, p, root) EXCEPT !.pc[p] = "cfg_forever_start" ]
    ELSE configCatch(getPackageRoot(s, p, root), p, "no installation found")

\* lines 344-353: forever has exited; it starts the script from the directory
\* shell.cd has reached
startConfigForeverDone(s, p, ok) ==
  IF ok /\ s.dir /\ ServerJs \in s.files
    THEN return([ asyncExecTo(foreverStartConfig(s), p, ForeverStart, TRUE, FALSE)
                    EXCEPT !.reported[p] = << LocalUrl(FixedPort) >> ], p)
    ELSE configCatch(asyncExecTo(s, p, ForeverStart, FALSE, FALSE), p,
                     "no installation found")

\* lines 356-359: stop awaits getInstallationPath; step tells the stop that
\* uninstall calls (1) from the stop command (0)
stopConfig(s, p) ==
  [ s EXCEPT !.pc[p] = "cfg_root",
             !.step[p] = IF s.cmd[p] = "uninstall" THEN 1 ELSE 0 ]

\* lines 359-368
stopConfigResolved(s, p, root) ==
  IF getInstallationPath(s, root)
    THEN [ getPackageRoot(s, p, root) EXCEPT !.pc[p] = "cfg_forever_stop" ]
    ELSE configCatch(getPackageRoot(s, p, root), p, "no installation found")

\* stop has returned, to the CLI or to uninstall (line 388), which awaits
\* getPackageRoot next (line 392)
stopConfigReturn(s, p) ==
  IF s.cmd[p] = "stop" THEN return(s, p)
  ELSE [ s EXCEPT !.pc[p] = "cfg_root", !.step[p] = 2 ]

\* lines 368-374: a failure of forever stop is printed as information
stopConfigForeverDone(s, p, ok) ==
  IF ok
    THEN stopConfigReturn(asyncExecTo(foreverStop(s), p, ForeverStop, TRUE, FALSE), p)
    ELSE stopConfigReturn(say(asyncExecTo(s, p, ForeverStop, FALSE, FALSE), p,
                              "isn't running"), p)

\* lines 376-380: uninstall awaits getInstallationPath
uninstallConfig(s, p) == [ s EXCEPT !.pc[p] = "cfg_root", !.step[p] = 0 ]

\* lines 380-388
uninstallConfigResolved(s, p, root) ==
  IF getInstallationPath(s, root)
    THEN stopConfig(getPackageRoot(s, p, root), p)
    ELSE configCatch(getPackageRoot(s, p, root), p, "no installation found")

\* lines 392-394: the package root is known, the removal of the config file
\* is awaited
uninstallConfigRoot(s, p, root) ==
  IF root
    THEN [ getPackageRoot(s, p, root) EXCEPT !.pc[p] = "cfg_rm_config" ]
    ELSE configCatch(getPackageRoot(s, p, root), p, "uninstall failed")

\* lines 394-397: the config file is removed, the removal of the directory
\* is awaited
uninstallConfigRemovedConfig(s, p, ok) ==
  IF ok
    THEN [ s EXCEPT !.config = "missing", !.pc[p] = "cfg_rm_dir" ]
    ELSE configCatch(fail(s, p), p, "uninstall failed")

\* lines 397-404
uninstallConfigRemoved(s, p, ok, keep) ==
  IF ok
    THEN return(say([ s EXCEPT !.dir = FALSE, !.files = {} ], p, "uninstalled"), p)
    ELSE configCatch(fail([ s EXCEPT !.files = keep ], p), p, "uninstall failed")

\* npm root -g has exited: the command goes on where it awaited it
packageRootDone(s, p, root) ==
  CASE s.cmd[p] = "start" -> startConfigResolved(s, p, root)
    [] s.cmd[p] = "stop" -> stopConfigResolved(s, p, root)
    [] s.cmd[p] = "uninstall" /\ s.step[p] = 0 -> uninstallConfigResolved(s, p, root)
    [] s.cmd[p] = "uninstall" /\ s.step[p] = 1 -> stopConfigResolved(s, p, root)
    [] s.cmd[p] = "uninstall" /\ s.step[p] = 2 -> uninstallConfigRoot(s, p, root)

ConfigCommands == { "start", "stop", "uninstall" }

\* lines 491-502
dispatchConfig(s, p, c) ==
  CASE c = "start" -> startConfig(s, p)
    [] c = "stop" -> stopConfig(s, p)
    [] c = "uninstall" -> uninstallConfig(s, p)

ConfigInvoke(p, c) ==
  /\ Ended(p)
  /\ overlap \/ (p = 1 /\ \A q \in Procs : Ended(q))
  /\ Commit(p, State, dispatchConfig(Fresh(State, p, c), p, c))

PackageRootDone(p, root) ==
  /\ pc[p] = "cfg_root"
  /\ Commit(p, State, packageRootDone(State, p, root))

ConfigStartForeverDone(p, ok) ==
  /\ pc[p] = "cfg_forever_start"
  /\ ok => registered < MaxRegistered
  /\ Commit(p, State, startConfigForeverDone(State, p, ok))

ConfigStopForeverDone(p, ok) ==
  /\ pc[p] = "cfg_forever_stop"
  /\ Commit(p, State, stopConfigForeverDone(State, p, ok))

ConfigRemovedConfig(p, ok) ==
  /\ pc[p] = "cfg_rm_config"
  /\ Commit(p, State, uninstallConfigRemovedConfig(State, p, ok))

ConfigRemoved(p, ok, keep) ==
  /\ pc[p] = "cfg_rm_dir"
  /\ Commit(p, State, uninstallConfigRemoved(State, p, ok, keep))

\* the states an install of this variant, its failures and an uninstall that
\* failed leave: the config file and the directory, each there or not
InitConfig ==
  /\ dir \in BOOLEAN
  /\ files = IF dir THEN { ServerJs, EnvFile, "dist" } ELSE {}
  /\ log = {}
  /\ env = IF dir THEN << PortLine >> ELSE << >>
  /\ registered = 0
  /\ config \in ConfigStates
  /\ pc = [ p \in Procs |-> "idle" ]
  /\ cmd = [ p \in Procs |-> "none" ]
  /\ step = [ p \in Procs |-> 0 ]
  /\ portEnv = [ p \in Procs |-> << >> ]
  /\ exitCode = [ p \in Procs |-> 0 ]
  /\ out = [ p \in Procs |-> << >> ]
  /\ ran = [ p \in Procs |-> << >> ]
  /\ pending = [ p \in Procs |-> {} ]
  /\ reported = [ p \in Procs |-> << >> ]
  /\ logged = [ p \in Procs |-> {} ]
  /\ rejected = [ p \in Procs |-> "" ]
  /\ mutated = [ p \in Procs |-> FALSE ]
  /\ failed = [ p \in Procs |-> FALSE ]
  /\ pre = [ p \in Procs |-> [ installed |-> FALSE, running |-> FALSE, dir |-> FALSE,
                               config |-> "missing", partial |-> FALSE ] ]
  /\ overlap = FALSE
  /\ partial = FALSE

NextConfig ==
  \/ \E p \in Procs, c \in ConfigCommands : ConfigInvoke(p, c)
  \/ \E p \in Procs, root \in BOOLEAN : PackageRootDone(p, root)
  \/ \E p \in Procs, ok \in BOOLEAN : ConfigStartForeverDone(p, ok)
  \/ \E p \in Procs, ok \in BOOLEAN : ConfigStopForeverDone(p, ok)
  \/ \E p \in Procs, ok \in BOOLEAN : ConfigRemovedConfig(p, ok)
  \/ \E p \in Procs, ok \in BOOLEAN : \E keep \in RemoveLeaves(State) :
       ConfigRemoved(p, ok, keep)
  \/ \E p \in Procs : ProcessExit(p)

SpecConfig == InitConfig /\ [][NextConfig]_vars

(***************************************************************************)
(* Properties                                                              *)
(***************************************************************************)
Ran(p, command) == \E i \in 1..Len(ran[p]) : ran[p][i] = command

\* the function the command runs has come to its end
Finished(p) == pc[p] \in { "returned", "exited" }

\* install has run every step up to its call of start, and none has failed
InstallStepsDone(p) ==
  /\ cmd[p] = "install"
  /\ ~failed[p]
  /\ Ran(p, NpmProd)
  /\ pc[p] # "cleanup"

\* C1: an install whose steps all run and none of which fails leaves the
\* application installed (src/server.js is there), and running (the pid file
\* is there) once its call of start has ended without an error.
C1_InstallEndsInstalledRunning ==
  \A p \in Procs :
    InstallStepsDone(p) =>
      /\ isInstalled(State)
      /\ (Finished(p) /\ exitCode[p] = 0) => isRunning(State)

C1_Witness ==
  \E p \in Procs :
    /\ InstallStepsDone(p)
    /\ pc[p] = "exited"
    /\ exitCode[p] = 0
    /\ Ran(p, ForeverStart)
    /\ isInstalled(State)
    /\ isRunning(State)

\* C2: an uninstall that ends without exit code 1, from whatever state it
\* started, leaves no installation directory: not installed, not running.
C2_UninstallRemoves ==
  \A p \in Procs :
    (cmd[p] = "uninstall" /\ Finished(p) /\ exitCode[p] = 0) =>
      /\ ~dir
      /\ ~isInstalled(State)
      /\ ~isRunning(State)

C2_Witness ==
  \E p \in Procs :
    /\ cmd[p] = "uninstall"
    /\ pc[p] = "exited"
    /\ exitCode[p] = 0
    /\ pre[p].installed
    /\ pre[p].running
    /\ ~dir

\* C3: install on an installation that is there exits with code 1 and has
\* changed nothing: no directory made, nothing downloaded, no write to the
\* log started, no command run, start not called.
C3_InstallWhenInstalled ==
  \A p \in Procs :
    (cmd[p] = "install" /\ pre[p].installed) =>
      /\ pc[p] = "exited"
      /\ exitCode[p] = 1
      /\ out[p] = << "already installed" >>
      /\ ~mutated[p]
      /\ ran[p] = << >>
      /\ logged[p] = {}
      /\ pending[p] = {}

C3_Witness ==
  \E p \in Procs :
    /\ cmd[p] = "install"
    /\ pre[p].installed
    /\ pc[p] = "exited"
    /\ isInstalled(State)

\* start, invoked where nothing is installed, ends with code 1 and the 'no
\* installation found' message, and has not run the supervisor
StartRefusedNotInstalled(p) ==
  /\ pc[p] = "exited"
  /\ exitCode[p] = 1
  /\ out[p] = << "no installation found" >>
  /\ ran[p] = << >>

C5_StartWhenRunning ==
  \A p \in Procs :
    (cmd[p] = "start" /\ pre[p].installed /\ pre[p].running) =>
      /\ pc[p] = "exited"
      /\ exitCode[p] # 0
      /\ out[p] = << "already running" >>
      /\ ran[p] = << >>
      /\ ~mutated[p]
      /\ isRunning(State)

C5_Witness ==
  \E p \in Procs :
    /\ cmd[p] = "start"
    /\ pre[p].installed
    /\ pre[p].running
    /\ pc[p] = "exited"
    /\ registered = 1

\* C6: stop where nothing runs returns (exit code 0), prints the one
\* informational message, never runs the supervisor and changes no file.
C6_StopWhenNotRunning ==
  \A p \in Procs :
    (cmd[p] = "stop" /\ ~pre[p].running) =>
      /\ Finished(p)
      /\ exitCode[p] = 0
      /\ out[p] = << "isn't running" >>
      /\ ran[p] = << >>
      /\ pending[p] = {}
      /\ ~mutated[p]

C6_Witness ==
  \E p \in Procs :
    /\ cmd[p] = "stop"
    /\ ~pre[p].running
    /\ pre[p].installed
    /\ pc[p] = "exited"
    /\ exitCode[p] = 0

\* no line of the text holds PORT=
NoPortLine(text) == \A i \in 1..Len(text) : ~includes(text[i], PortPattern)

\* C7: start on an installation that is there and does not run, whose
\* environment file holds PORT= on no line, ends with the 'no port' message
\* and exit code 1; the supervisor is not run and no pid file is made.
C7_StartNoPort ==
  \A p \in Procs :
    ( /\ cmd[p] = "start"
      /\ pre[p].installed
      /\ ~pre[p].running
      /\ EnvFile \in files
      /\ NoPortLine(env)
      /\ pc[p] # "read_env" ) =>
      /\ pc[p] = "exited"
      /\ exitCode[p] = 1
      /\ out[p] = << "no port" >>
      /\ ran[p] = << >>
      /\ ~mutated[p]
      /\ ~isRunning(State)

C7_Witness ==
  \E p \in Procs :
    /\ cmd[p] = "start"
    /\ pre[p].installed
    /\ ~pre[p].running
    /\ env # << >>
    /\ NoPortLine(env)
    /\ pc[p] = "exited"
    /\ out[p] = << "no port" >>

\* the line assigns the variable PORT: it is PORT=<p>
IsPortAssignment(line) ==
  /\ Len(line) >= Len(PortPattern)
  /\ SubSeq(line, 1, Len(PortPattern)) = PortPattern

PortValue(line) == SubSeq(line, Len(PortPattern) + 1, Len(line))

\* C8, as claimed: when the environment file holds a line PORT=<p>, whatever
\* lines come before or after it, a start that succeeds reports
\* http://localhost:<p> and a network URL that ends in :<p>.
C8_Original ==
  \A p \in Procs :
    (cmd[p] = "start" /\ Finished(p) /\ exitCode[p] = 0 /\ Ran(p, ForeverStart)) =>
      \A i \in 1..Len(env) :
        IsPortAssignment(env[i]) =>
          reported[p] = << LocalUrl(PortValue(env[i])), NetworkUrl(PortValue(env[i])) >>

\* the commands install hands to asyncExec
InstallCommands == { NpmInstall, NpmBuild, NpmProd }

\* C9, as claimed: when a command of install has exited with a code other
\* than 0 and its output was handed to the log's write stream, the install log
\* holds that output once the process has exited.
C9_Original ==
  \A p \in Procs :
    ( /\ cmd[p] \in { "install", "update" }
      /\ pc[p] = "exited"
      /\ rejected[p] \in InstallCommands
      /\ rejected[p] \in logged[p] ) =>
      /\ InstallLog \in files
      /\ rejected[p] \in log

\* what install.log can hold after an install: the output of its commands and
\* of the forever start of its call of start
InstallOutputs == InstallCommands \cup { ForeverStart }

\* uninstall and then install, as two commands: the install that has ended
\* well leaves a log that holds nothing but what this install has run
C10_SequenceLog ==
  \A p \in Procs :
    (cmd[p] = "install" /\ pc[p] = "exited" /\ exitCode[p] = 0) =>
      log \subseteq InstallOutputs

\* C10, as claimed: update ends in a state that uninstall and then install
\* end in.  The directory that uninstall and then install leave holds a log
\* with nothing but the output of this install (C10_SequenceLog), so the
\* same is claimed of update.
C10_Original ==
  \A p \in Procs :
    (cmd[p] = "update" /\ pc[p] = "exited" /\ exitCode[p] = 0) =>
      log \subseteq InstallOutputs

\* C11: in the config-file variant, start, stop and uninstall invoked while
\* the config file is missing or unreadable exit with code 1 and the 'no
\* installation found' message; forever is not run and nothing is deleted
\* or changed.
C11_ConfigMissing ==
  \A p \in Procs :
    (cmd[p] \in ConfigCommands /\ pre[p].config # "valid" /\ pc[p] # "cfg_root") =>
      /\ pc[p] = "exited"
      /\ exitCode[p] = 1
      /\ out[p] = << "no installation found" >>
      /\ ~Ran(p, ForeverStart)
      /\ ~Ran(p, ForeverStop)
      /\ ~mutated[p]

C11_Witness ==
  \E p \in Procs :
    /\ cmd[p] = "uninstall"
    /\ pre[p].config = "unreadable"
    /\ pre[p].dir
    /\ pc[p] = "exited"
    /\ exitCode[p] = 1
    /\ dir
    /\ ServerJs \in files

\* C12, as claimed: once a step of install has failed (the directory
\* creation, the download, a command, a move, a rename or a removal of the
\* clean-up), install has ended with exit code 1: no later step runs.
C12_Original ==
  \A p \in Procs :
    (cmd[p] = "install" /\ failed[p]) =>
      /\ pc[p] = "exited"
      /\ exitCode[p] = 1

\* install has failed after the moves of lines 212-213: at the removal of
\* server/ (line 214) or in its call of start (line 218)
LateFailure(p) ==
  /\ Ran(p, NpmProd)
  /\ rejected[p] # NpmProd
  /\ step[p] \in { 0, Len(CleanupRemoves) }

C14_Original ==
  \A p \in Procs :
    (cmd[p] = "stop" /\ pre[p].installed /\ pre[p].running /\ Finished(p)) =>
      /\ exitCode[p] = 0
      /\ ~isRunning(State)

\* stop has been run and has returned: it has printed that nothing runs, or
\* forever stop has exited
StopReturned(p) ==
  \/ Ran(p, ForeverStop)
  \/ \E i \in 1..Len(out[p]) : out[p][i] = "isn't running"

\* the removal of the directory has been started
RemovalBegun(p) ==
  \/ pc[p] = "removing"
  \/ \E i \in 1..Len(out[p]) : out[p][i] = "uninstall failed"
  \/ (Finished(p) /\ pre[p].dir /\ exitCode[p] = 0)

\* C15, as claimed: every uninstall runs stop, also where there is no
\* installation directory, and starts to delete only after stop has
\* returned.
C15_Original ==
  \A p \in Procs :
    cmd[p] = "uninstall" =>
      /\ RemovalBegun(p) => StopReturned(p)
      /\ Finished(p) => StopReturned(p)

\* C15, amended: an uninstall that finds the installation directory runs stop
\* and starts to delete only after stop has returned, and a deletion that
\* fails ends it with exit code 1; an uninstall that finds no directory
\* prints that nothing is installed and returns, without running stop.
C15_UninstallStopsFirst ==
  \A p \in Procs :
    cmd[p] = "uninstall" =>
      /\ RemovalBegun(p) => StopReturned(p)
      /\ (pre[p].dir /\ Finished(p)) => StopReturned(p)
      /\ (\E i \in 1..Len(out[p]) : out[p][i] = "uninstall failed") =>
           (pc[p] = "exited" /\ exitCode[p] = 1)
      /\ ~pre[p].dir =>
           /\ Finished(p)
           /\ exitCode[p] = 0
           /\ out[p] = << "isn't installed" >>
           /\ ran[p] = << >>
           /\ ~mutated[p]

C15_Witness ==
  \E p \in Procs :
    /\ cmd[p] = "uninstall"
    /\ pre[p].running
    /\ Ran(p, ForeverStop)
    /\ pc[p] = "exited"
    /\ exitCode[p] = 1
    /\ out[p][Len(out[p])] = "uninstall failed"

\* the config-file variant: uninstall starts to delete only after forever
\* stop has exited, also where the directory is not there
ConfigStopsFirst ==
  \A p \in Procs :
    (cmd[p] = "uninstall" /\ pc[p] \in { "cfg_rm_config", "cfg_rm_dir", "returned" }) =>
      Ran(p, ForeverStop)

\* C16, as claimed: the log is cleared before anything is appended to it, so
\* an install that has ended well, all its writes done, leaves a log that
\* holds the output of each of its commands.
C16_Original ==
  \A p \in Procs :
    (cmd[p] = "install" /\ pc[p] = "exited" /\ exitCode[p] = 0) =>
      InstallCommands \subseteq log

\* C17, as claimed: between the commands, forever holds at most one instance
\* of the application, and none when no pid file is there.
C17_Original ==
  (\A p \in Procs : Ended(p)) =>
    /\ registered <= 1
    /\ ~isRunning(State) => registered = 0

\* install p has made the directory and goes on
Proceeding(p) == cmd[p] = "install" /\ pc[p] \in PastMkdir \cup { "returned" }

\* install p has ended at the creation of the directory
RefusedAtMkdir(p) ==
  /\ pc[p] = "exited"
  /\ exitCode[p] = 1
  /\ out[p] = << "Could not create install directory" >>
  /\ ran[p] = << >>
  /\ pending[p] = {}
  /\ ~mutated[p]

\* C18: of two installs that overlap and have both passed the isInstalled
\* check, at most one goes on past the creation of the directory; while it
\* goes on, the other, once it has ended, has ended at the creation of the
\* directory with exit code 1 and 'Could not create install directory', and
\* has changed nothing.
C18_OneInstallProceeds ==
  \A p, q \in Procs :
    (p # q /\ Proceeding(p) /\ cmd[q] = "install" /\ ~pre[q].installed) =>
      /\ ~Proceeding(q)
      /\ pc[q] = "exited" => RefusedAtMkdir(q)

C18_Witness ==
  \E p, q \in Procs :
    /\ p # q
    /\ Proceeding(p)
    /\ ~pre[p].dir
    /\ cmd[q] = "install"
    /\ ~pre[q].dir
    /\ RefusedAtMkdir(q)
    /\ pc[p] = "npm_build"

\* install has ended with exit code 1 and has run nothing
RefusedInstall(p) ==
  /\ pc[p] = "exited"
  /\ exitCode[p] = 1
  /\ ran[p] = << >>
  /\ pending[p] = {}
  /\ ~mutated[p]

\* C19, as claimed: after an install that has failed past the creation of
\* the directory, and until the directory is removed, an install ends at the
\* creation of the directory with exit code 1, and has downloaded and run
\* nothing.
C19_Original ==
  \A p \in Procs :
    (cmd[p] = "install" /\ pre[p].partial /\ pc[p] # "install_mkdir") =>
      /\ RefusedInstall(p)
      /\ out[p] = << "Could not create install directory" >>

\* C19, amended: after an install that has failed past the creation of the
\* directory, and until the directory is removed, an install ends with exit
\* code 1 and has downloaded and run nothing: at the creation of the
\* directory when src/server.js is not in place, at the 'already installed'
\* check when it is (the install had failed at the last removal or in
\* start).  An update from that state goes on to install only once the
\* directory is removed, and when it ends well it has run every step of
\* install.
C19_InstallAfterFailure ==
  \A p \in Procs :
    /\ (cmd[p] = "install" /\ pre[p].partial /\ pc[p] # "install_mkdir") =>
         /\ pre[p].dir
         /\ RefusedInstall(p)
         /\ out[p] = IF pre[p].installed
                       THEN << "already installed" >>
                       ELSE << "Could not create install directory" >>
    /\ (cmd[p] = "update" /\ pre[p].partial) =>
         /\ pc[p] = "install_mkdir" => ~dir
         /\ (pc[p] = "exited" /\ exitCode[p] = 0) =>
              /\ isInstalled(State)
              /\ \A c \in InstallCommands \cup { ForeverStart } : Ran(p, c)

C19_Witness ==
  \E p \in Procs :
    /\ cmd[p] = "install"
    /\ pre[p].partial
    /\ ~pre[p].installed
    /\ RefusedInstall(p)
    /\ out[p] = << "Could not create install directory" >>
    /\ partial

====
